---- MODULE Spec2Model ----
(***************************************************************************)
(* Model of opor: the reactive live-query engine (src/live-query.ts), the  *)
(* change router (src/db.ts / src/driver.ts), the session's logQuery hook  *)
(* (src/session.ts) and the structural equality helper (src/utils.ts).     *)
(*                                                                         *)
(* JavaScript runs one synchronous segment at a time: every action below   *)
(* is one such segment (the code between two awaits of one handler).       *)
(***************************************************************************)
EXTENDS Integers, Sequences, FiniteSets, TLC

(* ------------------------------------------------------------------ *)
(* Bounds of the model                                                 *)
(* ------------------------------------------------------------------ *)

\* number of liveQuery() registrations in one behaviour
MaxQueries == 2

\* refetches of one live query that may be in flight at the same time
MaxInflight == 2

\* mutations buffered by one transaction body
MaxTxOps == 2

\* calls the application makes in one behaviour (liveQuery, subscribe, a mutation, ...)
MaxCalls == 5

\* the same, in the behaviours with two live queries
MaxRouterCalls == 4

\* transaction calls nested in one another, the outermost included
MaxDepth == 2

\* savepoint commands after which a transaction body starts no further nested call
MaxCmds == 4

\* finalize calls counted on one engine statement; further calls leave the count there
MaxFinalizes == 2

\* change tuples in one changeset
MaxChanges == 2

\* migrations in the list given to one migrate call
MaxMigrations == 3

\* c.length === 8: the columns of one change tuple
TupleLength == 8

(* ------------------------------------------------------------------ *)
(* JavaScript values                                                   *)
(* ------------------------------------------------------------------ *)

Undefined == [k |-> "undefined"]

Null == [k |-> "null"]

NaN == [k |-> "nan"]

Num(n) == [k |-> "number", n |-> n]

Str(s) == [k |-> "string", s |-> s]

\* an Array: items is a sequence of values
Arr(items) == [k |-> "array", items |-> items]

\* a plain object: fields is a function from its own keys to values
Obj(fields) == [k |-> "object", fields |-> fields]

\* an instance of Error
Err(msg) == [k |-> "error", message |-> msg]

\* typeof v === 'object' && v (null is falsy)
IsObjectLike(v) == v.k \in {"array", "object", "error"}

\* a === b for two values of which at least one was freshly produced: primitives
\* compare by value (NaN is not equal to itself), objects by identity, and a fresh
\* object is identical to nothing else
StrictEquals(a, b) == /\ ~IsObjectLike(a)
                      /\ a.k = b.k
                      /\ a.k # "nan"
                      /\ a = b

\* Object.keys(o)
ObjectKeys(o) == IF o.k = "object" THEN DOMAIN o.fields ELSE {}

\* o[key] for an own key
GetField(o, key) == o.fields[key]

RECURSIVE deepEqual(_, _)
deepEqual(a, b) ==
    IF StrictEquals(a, b) THEN TRUE
    ELSE IF IsObjectLike(a) /\ IsObjectLike(b)
    THEN IF a.k # b.k THEN FALSE                       \* a.constructor !== b.constructor
         ELSE IF a.k = "array"
         THEN /\ Len(a.items) = Len(b.items)
              /\ \A i \in 1..Len(a.items) : deepEqual(a.items[i], b.items[i])
         ELSE /\ Cardinality(ObjectKeys(a)) = Cardinality(ObjectKeys(b))
              /\ \A key \in ObjectKeys(a) :
                    \* `key && (...)`: the empty key is falsy and is skipped
                    key = "" \/ (/\ key \in ObjectKeys(b)
                                 /\ deepEqual(GetField(a, key), GetField(b, key)))
    ELSE a.k = "nan" /\ b.k = "nan"                    \* a !== a && b !== b

(* ------------------------------------------------------------------ *)
(* SQL text and the table extractor                                    *)
(* ------------------------------------------------------------------ *)

\* String.prototype.toLowerCase on the words that occur in the model
toLowerCase(w) == CASE w = "Posts" -> "posts"
                    [] w = "FROM" -> "from"
                    [] OTHER -> w

\* A SQL string is a sequence of whitespace-separated tokens. q tells how the
\* token is written: bare word, `backtick` wrapped or "double-quoted".
Word(w) == [q |-> "bare", v |-> w]

Backtick(w) == [q |-> "backtick", v |-> w]

DQuote(w) == [q |-> "dquote", v |-> w]

\* (?:from|join|update|into|delete\s+from) under the i flag; `delete from` ends
\* in `from`, so the alternation accepts exactly the words below
IsTableKeyword(tok) ==
    tok.q = "bare" /\ toLowerCase(tok.v) \in {"from", "join", "update", "into"}

\* \s+`?([a-zA-Z0-9_]+)`? : the next token must start with a word character or
\* a backtick; a double quote matches neither
IsCaptured(tok) == tok.q \in {"bare", "backtick"}

RECURSIVE ScanTables(_, _)
ScanTables(sql, i) ==
    IF i >= Len(sql) THEN {}
    ELSE IF IsTableKeyword(sql[i]) /\ IsCaptured(sql[i + 1])
         THEN {toLowerCase(sql[i + 1].v)} \cup ScanTables(sql, i + 2)
         ELSE ScanTables(sql, i + 1)

extractTableNames(sql) == ScanTables(sql, 1)

(* ------------------------------------------------------------------ *)
(* The embedded engine: schema, rows and statement execution           *)
(* ------------------------------------------------------------------ *)

\* the tables, by the names they were declared with: the engine reports a change
\* of a table by that name, capital letters included
Tables == {"users", "Posts"}

\* primary keys of the rows that mutations insert and delete
RowIds == {1, 2}

\* the tables a statement really references: the identifier after FROM, JOIN,
\* UPDATE or INTO, however it is quoted (SQLite resolves names case-insensitively)
RECURSIVE ReferencedTables(_, _)
ReferencedTables(sql, i) ==
    IF i >= Len(sql) THEN <<>>
    ELSE IF IsTableKeyword(sql[i])
         THEN <<toLowerCase(sql[i + 1].v)>> \o ReferencedTables(sql, i + 2)
         ELSE ReferencedTables(sql, i + 1)

TableNamed(lower) == CHOOSE t \in Tables : toLowerCase(t) = lower

Row(t, id) == Obj([f \in {"id", "tbl"} |-> IF f = "id" THEN Num(id) ELSE Str(toLowerCase(t))])

RECURSIVE RowsOfIds(_, _)
RowsOfIds(t, ids) ==
    IF ids = {} THEN <<>>
    ELSE LET m == CHOOSE x \in ids : \A y \in ids : x <= y
         IN <<Row(t, m)>> \o RowsOfIds(t, ids \ {m})

RECURSIVE RowsOfTables(_, _)
RowsOfTables(state, names) ==
    IF names = <<>> THEN <<>>
    ELSE RowsOfIds(TableNamed(Head(names)), state[TableNamed(Head(names))])
         \o RowsOfTables(state, Tail(names))

\* stmt.all / stmt.get on a database state
EngineRead(state, stmt) ==
    LET rows == RowsOfTables(state, ReferencedTables(stmt.sql, 1))
    IN IF stmt.method = "get"
       THEN (IF rows = <<>> THEN Undefined ELSE rows[1])
       ELSE Arr(rows)

(* ------------------------------------------------------------------ *)
(* Query builders handed to liveQuery                                  *)
(* ------------------------------------------------------------------ *)

Select(method, tokens) == [sql |-> <<Word("select"), Word("from")>> \o tokens, method |-> method]

\* db => db.all(sql`select from \`Posts\``)
BuilderPosts == [stmts |-> <<Select("all", <<Backtick("Posts")>>)>>, cond |-> FALSE]

\* db => db.all(sql`select from users`)
BuilderUsers == [stmts |-> <<Select("all", <<Word("users")>>)>>, cond |-> FALSE]

\* db => db.select().from(users): the query builder double-quotes identifiers
BuilderDrizzle == [stmts |-> <<Select("all", <<DQuote("users")>>)>>, cond |-> FALSE]

\* db => db.get(sql`select from users`): undefined when there is no row
BuilderGet == [stmts |-> <<Select("get", <<Word("users")>>)>>, cond |-> FALSE]

\* async db => { const u = await <users>; if (u.length === 0) return u;
\*               return [u, await <posts>] }
BuilderCond == [stmts |-> <<Select("all", <<Word("users")>>),
                            Select("all", <<Backtick("Posts")>>)>>, cond |-> TRUE]

Builders == {BuilderUsers, BuilderPosts, BuilderDrizzle, BuilderGet, BuilderCond}

\* db => db.select().from(undefined): the call throws before it returns a
\* promise and before any statement is executed
BuilderThrows == [stmts |-> <<>>, cond |-> FALSE]

\* the builder throws in the call itself: `await internalQuery.builder(...)`
\* goes to the catch of refetch() without suspending
ThrowsSynchronously(b) == b.stmts = <<>>

\* does the builder issue another statement after its i-th one returned r ?
HasNextStatement(b, i, r) ==
    /\ i < Len(b.stmts)
    /\ ~(b.cond /\ r = Arr(<<>>))

\* the value the builder resolves to, from the results of its statements
BuilderValue(reads) == IF Len(reads) = 1 THEN reads[1] ELSE Arr(reads)

\* the value builder b resolves to when all its statements read the one state
RECURSIVE RunBuilder(_, _, _)
RunBuilder(state, b, reads) ==
    LET r == EngineRead(state, b.stmts[Len(reads) + 1])
        rs == Append(reads, r)
    IN IF HasNextStatement(b, Len(rs), r) THEN RunBuilder(state, b, rs)
       ELSE BuilderValue(rs)

(* ------------------------------------------------------------------ *)
(* types.ts: JSON text with arbitrary-precision integers               *)
(* ------------------------------------------------------------------ *)

\* a bigint; n stands for an integer of any size (toString and BigInt are
\* exact at every size)
BigIntV(n) == [k |-> "bigint", n |-> n]

\* what was thrown instead of a value
Thrown(name) == [k |-> "thrown", name |-> name]

\* the integers with a decimal form in the vocabulary
BigInts == {0, 5, 12}

\* value.toString() of a bigint
BigIntToString(n) == CASE n = 0 -> "0" [] n = 5 -> "5" [] OTHER -> "12"

\* what follows the marker in the strings of the vocabulary
Suffixes == {"0", "5", "12", "x", ""}

\* value.startsWith('BIGINT::')
StartsWithMarker(str) == \E rest \in Suffixes : str = "BIGINT::" \o rest

\* value.substring(8) of a string that starts with the marker
Substring8(str) == CHOOSE rest \in Suffixes : str = "BIGINT::" \o rest

\* BigInt(str): the integer a decimal string denotes, 0n for the empty string,
\* SyntaxError for anything else
BigInt(str) ==
    CASE str = "" \/ str = "0" -> BigIntV(0)
      [] str = "5" -> BigIntV(5)
      [] str = "12" -> BigIntV(12)
      [] OTHER -> Thrown("SyntaxError")

\* a JSON text, by the value it denotes; text that is not JSON denotes none
JsonText(tree) == [k |-> "json", tree |-> tree]

NotJson == [k |-> "json", tree |-> [k |-> "invalid"]]

\* the replacer of jsonStringifyWithBigInt
Replacer(value) ==
    IF value.k = "bigint" THEN Str("BIGINT::" \o BigIntToString(value.n)) ELSE value

\* JSON.stringify with the replacer: the replacer sees every value before it
\* is written; undefined and NaN inside an array are written as null
RECURSIVE Stringify(_)
Stringify(v) ==
    LET r == Replacer(v)
    IN CASE r.k = "array" -> Arr([i \in 1..Len(r.items) |-> Stringify(r.items[i])])
         [] r.k = "object" -> Obj([f \in DOMAIN r.fields |-> Stringify(r.fields[f])])
         [] r.k \in {"undefined", "nan"} -> Null
         [] OTHER -> r

jsonStringifyWithBigInt(obj) == JsonText(Stringify(obj))

\* the reviver of jsonParseWithBigInt
Reviver(value) ==
    IF value.k = "string" /\ StartsWithMarker(value.s)
    THEN BigInt(Substring8(value.s))
    ELSE value

\* JSON.parse with the reviver: members first, then the value that holds
\* them; what the reviver throws ends the parse
RECURSIVE Revive(_)
Revive(tree) ==
    CASE tree.k = "array" ->
            LET items == [i \in 1..Len(tree.items) |-> Revive(tree.items[i])]
            IN IF \E i \in 1..Len(items) : items[i].k = "thrown"
               THEN Thrown("SyntaxError")
               ELSE Reviver(Arr(items))
      [] tree.k = "object" ->
            LET fields == [f \in DOMAIN tree.fields |-> Revive(tree.fields[f])]
            IN IF \E f \in DOMAIN fields : fields[f].k = "thrown"
               THEN Thrown("SyntaxError")
               ELSE Reviver(Obj(fields))
      [] OTHER -> Reviver(tree)

jsonParseWithBigInt(json) ==
    IF json = NotJson THEN Thrown("SyntaxError") ELSE Revive(json.tree)

(* ------------------------------------------------------------------ *)
(* State                                                               *)
(* ------------------------------------------------------------------ *)

VARIABLES
    db,                     \* the engine's committed rows: table -> set of row ids
    tx,                     \* the imperative transaction of session.transaction, if open
    queryIdCounter,         \* client.queryIdCounter
    liveQueries,            \* keys of client.liveQueries (the registry)
    queries,                \* id -> the LiveQuery record and its result snapshot
    tasks,                  \* id -> the refetch() calls of that query that are in flight
    currentTableCollector,  \* 0 for null, else the id of the query whose tableDeps it is
    dataFresh,              \* id -> data was read from the current database state
    lastCall,               \* id -> subscriber -> the data of its latest call
    ncalls,                 \* API calls made by the application so far
    txWatch,                \* what was seen of the latest transaction (history)
    sess,                   \* the control flow of session.transaction and of a statement execution
    call,                   \* the latest call of createLiveDB, of a sync.ts function or of extractTableNames
    mig,                    \* the bookkeeping table of migrate and what its calls executed
    ev                      \* what the latest step did (calls made, refetches started)

vars == <<db, tx, queryIdCounter, liveQueries, queries, tasks,
          currentTableCollector, dataFresh, lastCall, ncalls, txWatch, sess, call,
          mig, ev>>

\* subscriber callbacks; the ones in ThrowingSubs throw when they are called
Subs == {"s1", "s2"}

ThrowingSubs == {"s2"}

NoCall == [k |-> "nocall"]

\* ev.op names the step, ev.q and ev.s the query and subscriber it was about,
\* ev.task the refetch that completed, ev.calls the subscriber calls it made (in
\* order) and ev.cbs the engine callbacks with the refetches each one started
Event(op, q, s, task, calls, cbs) ==
    [op |-> op, q |-> q, s |-> s, task |-> task, calls |-> calls, cbs |-> cbs]

\* one pending refetch(): its position, the statement results so far and, once
\* the builder has settled, its outcome
NewTask(isFirstRun) ==
    [first |-> isFirstRun, pc |-> "job", reads |-> <<>>, ok |-> TRUE,
     val |-> Undefined, fresh |-> TRUE]

NoTask == [NewTask(FALSE) EXCEPT !.pc = "none"]

NoEvent == Event("none", 0, "", NoTask, <<>>, <<>>)

NoTx == [open |-> FALSE, state |-> [t \in Tables |-> {}], log |-> <<>>]

\* txWatch.active: the latest transaction began while every live query had a
\* subscriber and no refetch in flight, and no other mutation ran since;
\* before: the data of each query when it began; ops: the mutations it
\* committed; n: per query, the refetches that called subscribers since it began
NoWatch == [active |-> FALSE, before |-> <<>>, ops |-> 0, n |-> <<>>]

\* no statement executed yet
NoExec == [mode |-> "none", oneTime |-> FALSE, tx |-> "null", passed |-> "null",
           finalized |-> FALSE, threw |-> FALSE, raised |-> "none"]

\* no transaction call finished yet
NoResult == [d |-> 0, fn |-> "none", out |-> "none"]

\* the finalize calls made so far on the engine statement of the single-use
\* prepared query and on the one of the long-lived prepared query, and whether
\* the long-lived one was garbage-collected
NoFinalize == [single |-> 0, held |-> 0, collected |-> FALSE]

\* sess.top: where the session.transaction call is; releases: the calls of the
\* release function it made; stack: the CRSQLiteTransaction.transaction calls
\* in progress, outermost first; cmds: the commands session.exec issued, in
\* order; result: how the latest of those calls ended; exec: the latest
\* execution of a prepared statement; fin: the finalize calls; kept: the
\* prepared query a transaction body made with its child session and handed to
\* the application ("live" until release() of that transaction was called,
\* then "released"); op: the latest step
IdleSession == [top |-> "idle", releases |-> 0, stack |-> <<>>, cmds |-> <<>>,
                result |-> NoResult, exec |-> NoExec, fin |-> NoFinalize,
                kept |-> "none", op |-> "none"]

\* no library call made yet
NoLibraryCall == [fn |-> "none"]

\* the bookkeeping table does not exist and migrate was never called. table:
\* the rows of the bookkeeping table in insertion order; pc: where the call
\* is; list: config.migrations; last: lastDbMigration; next, stmt: the
\* migration and the statement the loops are at; ran: the statements this call
\* executed; inserted: the rows it inserted; before: the table when it
\* started; prior: the list and the end of the call before it; effects: the
\* statements the engine has executed, as [hash, stmt] (each db.run is
\* committed on its own, migrate opens no transaction)
NoMigration == [table |-> <<>>, exists |-> FALSE, pc |-> "idle", list |-> <<>>,
                last |-> Undefined, next |-> 1, stmt |-> 1, ran |-> <<>>,
                inserted |-> 0, before |-> <<>>, out |-> Undefined,
                prior |-> [list |-> <<>>, pc |-> "none"], effects |-> {}]

\* the client and the session after construction
InitClient ==
    /\ db = [t \in Tables |-> {}]
    /\ tx = NoTx
    /\ queryIdCounter = 0
    /\ liveQueries = {}
    /\ queries = <<>>
    /\ tasks = <<>>
    /\ currentTableCollector = 0
    /\ dataFresh = <<>>
    /\ lastCall = <<>>
    /\ ncalls = 0
    /\ txWatch = NoWatch
    /\ sess = IdleSession
    /\ mig = NoMigration
    /\ ev = NoEvent

Init == InitClient /\ call = NoLibraryCall

Created == 1..queryIdCounter

(* ------------------------------------------------------------------ *)
(* live-query.ts                                                       *)
(* ------------------------------------------------------------------ *)

\* e instanceof Error ? e : new Error(String(e))
WrapError(e) == IF e.k = "error" THEN e ELSE Err(e.s)

\* refetch() of a query whose builder throws in the call: the catch and the
\* finally run before refetch() returns
ThrownInCall(rec) ==
    [rec EXCEPT !.error = WrapError(Err("builder error")), !.loading = FALSE,
                !.completed = TRUE]

\* the synchronous head of refetch(), for every query of the set qs at once (in
\* registry order): loading = true, isFirstRun, install the collector, call the
\* builder (which runs up to its first await, or throws)
RefetchHead(S, qs) ==
    LET firstRuns == {q \in qs : S.queries[q].tableDeps = {}}
        last == CHOOSE q \in firstRuns : \A r \in firstRuns : r <= q
    IN [queries |-> [q \in DOMAIN S.queries |->
                        IF q \notin qs THEN S.queries[q]
                        ELSE IF ThrowsSynchronously(S.queries[q].builder)
                        THEN ThrownInCall(S.queries[q])
                        ELSE [S.queries[q] EXCEPT !.loading = TRUE]],
        tasks |-> [q \in DOMAIN S.tasks |->
                        IF q \in qs /\ ~ThrowsSynchronously(S.queries[q].builder)
                        THEN Append(S.tasks[q], NewTask(S.queries[q].tableDeps = {}))
                        ELSE S.tasks[q]],
        collector |-> IF firstRuns = {} THEN S.collector
                      ELSE IF ThrowsSynchronously(S.queries[last].builder) THEN 0
                      ELSE last]

Current == [queries |-> queries, tasks |-> tasks, collector |-> currentTableCollector]

SetCurrent(S) ==
    /\ queries' = S.queries
    /\ tasks' = S.tasks
    /\ currentTableCollector' = S.collector

\* createLiveQuery: a fresh record with an empty dependency set, registered, and
\* the initial refetch() started. The fields completed and succeeded of the
\* record are history: a refetch of the query has reached its finally, and the
\* builder of one has resolved
createLiveQuery(builder) ==
    /\ ncalls < MaxCalls
    /\ ncalls' = ncalls + 1
    /\ UNCHANGED <<sess, call, mig>>
    /\ txWatch' = NoWatch
    /\ queryIdCounter < MaxQueries
    /\ LET id == queryIdCounter + 1
           rec == [builder |-> builder, subscribers |-> <<>>, tableDeps |-> {},
                   data |-> Undefined, error |-> Undefined, loading |-> TRUE,
                   completed |-> FALSE, succeeded |-> FALSE]
           S0 == [queries |-> Append(queries, rec),
                  tasks |-> Append(tasks, <<>>),
                  collector |-> currentTableCollector]
       IN /\ queryIdCounter' = id
          /\ liveQueries' = liveQueries \cup {id}
          /\ SetCurrent(RefetchHead(S0, {id}))
          /\ dataFresh' = Append(dataFresh, FALSE)
          /\ lastCall' = Append(lastCall, [s \in Subs |-> NoCall])
          /\ ev' = Event("liveQuery", id, "", NoTask, <<>>, <<>>)
    /\ UNCHANGED <<db, tx>>

\* the builder of refetch k of query q, running while the collector is installed
\* for that first run, calls liveQuery(inner): nothing in createLiveQuery looks
\* at the collector, the call is served like any other
BuilderCallsLiveQuery(q, k, inner) ==
    /\ q \in Created
    /\ k \in 1..Len(tasks[q])
    /\ tasks[q][k].first
    /\ tasks[q][k].pc = "job"
    /\ currentTableCollector = q
    /\ createLiveQuery(inner)

\* result.refetch() called by the application
refetch(q) ==
    /\ ncalls < MaxCalls
    /\ ncalls' = ncalls + 1
    /\ UNCHANGED <<sess, call, mig>>
    /\ txWatch' = NoWatch
    /\ q \in Created
    /\ Len(tasks[q]) < MaxInflight
    /\ SetCurrent(RefetchHead(Current, {q}))
    /\ ev' = Event("refetch", q, "", NoTask, <<>>, <<>>)
    /\ UNCHANGED <<db, tx, queryIdCounter, liveQueries, dataFresh, lastCall>>

\* a loop over the subscribers that starts with the one registered last
CalledSubscribersNewestFirst(subs) == [i \in 1..Len(subs) |-> subs[Len(subs) + 1 - i]]

\* the subscribers that notifySubscribers (or subscribe) gets to call: the loop
\* has no try/catch, so it stops at the first subscriber that throws
CalledSubscribers(subs) ==
    LET throwers == {i \in 1..Len(subs) : subs[i] \in ThrowingSubs}
    IN IF throwers = {} THEN subs
       ELSE SubSeq(subs, 1, CHOOSE i \in throwers : \A j \in throwers : i <= j)

SubscriberThrows(subs) == \E i \in 1..Len(subs) : subs[i] \in ThrowingSubs

notifySubscribers(subs, data) ==
    IF data = Undefined THEN <<>> ELSE CalledSubscribers(subs)

SeqRange(sq) == {sq[i] : i \in 1..Len(sq)}

RemoveAt(sq, k) == SubSeq(sq, 1, k - 1) \o SubSeq(sq, k + 1, Len(sq))

CallsOf(called, data) == [i \in 1..Len(called) |-> [s |-> called[i], data |-> data]]

(* ------------------------------------------------------------------ *)
(* session.ts: the execution of a prepared statement                   *)
(* ------------------------------------------------------------------ *)

\* CRSQLitePreparedQuery.logQuery: the tables of the SQL go to the installed
\* collector, whichever query's dependency set that is
logQuery(qs, collector, sql) ==
    IF collector = 0 THEN qs
    ELSE [qs EXCEPT ![collector].tableDeps = @ \cup extractTableNames(sql)]

CurrentStatement(q, k) == queries[q].builder.stmts[Len(tasks[q][k].reads) + 1]

\* all()/get() up to `await this.stmt`: placeholders are filled and the query is
\* logged, for the next statement of the builder of refetch k of query q
ExecuteStatement(q, k) ==
    /\ UNCHANGED ncalls
    /\ UNCHANGED <<sess, call, mig>>
    /\ UNCHANGED txWatch
    /\ q \in Created
    /\ k \in 1..Len(tasks[q])
    /\ tasks[q][k].pc = "job"
    /\ queries' = logQuery(queries, currentTableCollector, CurrentStatement(q, k).sql)
    /\ tasks' = [tasks EXCEPT ![q][k].pc = "engine"]
    /\ ev' = Event("logQuery", q, "", NoTask, <<>>, <<>>)
    /\ UNCHANGED <<db, tx, queryIdCounter, liveQueries, currentTableCollector,
                   dataFresh, lastCall>>

\* the engine runs the statement (it waits while a transaction holds the
\* engine) and the builder goes on: to its next statement, or it settles
StatementResult(q, k, outcome) ==
    /\ UNCHANGED ncalls
    /\ UNCHANGED <<sess, call, mig>>
    /\ UNCHANGED txWatch
    /\ q \in Created
    /\ k \in 1..Len(tasks[q])
    /\ tasks[q][k].pc = "engine"
    /\ ~tx.open
    /\ LET t == tasks[q][k]
           b == queries[q].builder
           r == EngineRead(db, CurrentStatement(q, k))
           reads == Append(t.reads, r)
       IN tasks' = [tasks EXCEPT ![q][k] =
             CASE outcome = "engineError" ->
                    [t EXCEPT !.pc = "settled", !.ok = FALSE, !.val = Err("engine error")]
               [] outcome = "builderThrows" ->
                    [t EXCEPT !.pc = "settled", !.ok = FALSE, !.val = Str("boom")]
               [] OTHER ->
                    IF HasNextStatement(b, Len(reads), r)
                    THEN [t EXCEPT !.pc = "job", !.reads = reads]
                    ELSE [t EXCEPT !.pc = "settled", !.reads = reads,
                                   !.val = BuilderValue(reads)]]
    /\ ev' = Event("statement", q, "", NoTask, <<>>, <<>>)
    /\ UNCHANGED <<db, tx, queryIdCounter, liveQueries, queries,
                   currentTableCollector, dataFresh, lastCall>>

(* ------------------------------------------------------------------ *)
(* live-query.ts: the continuation of refetch() and the snapshot       *)
(* ------------------------------------------------------------------ *)

\* a refetch that takes every result for a change, equal to the data or not
DataChangedAlways(data, newData) == TRUE

\* `!deepEqual(internalQuery.result.data, newData)`
DataChanged(data, newData) == ~deepEqual(data, newData)

\* a finally that leaves the collector as it is
CollectorKept(isFirstRun, collector) == collector

\* the finally of refetch(): `if (isFirstRun) currentTableCollector = null`
CollectorCleared(isFirstRun, collector) == IF isFirstRun THEN 0 ELSE collector

\* refetch() after `await internalQuery.builder(...)`: the try body, the catch
\* and the finally, in one synchronous run
RefetchTail(q, t) ==
    LET rec == queries[q]
        changed == t.ok /\ DataChanged(rec.data, t.val)
        data == IF changed THEN t.val ELSE rec.data
        called == IF changed THEN notifySubscribers(rec.subscribers, data) ELSE <<>>
        threw == changed /\ data # Undefined /\ SubscriberThrows(rec.subscribers)
        error == IF ~t.ok THEN WrapError(t.val)
                 ELSE IF threw THEN WrapError(Err("subscriber error"))
                 ELSE Undefined
    IN [rec |-> [rec EXCEPT !.data = data, !.error = error, !.loading = FALSE,
                            !.completed = TRUE, !.succeeded = @ \/ t.ok],
        changed |-> changed,
        calls |-> CallsOf(called, data),
        collector |-> CollectorCleared(t.first, currentTableCollector)]

CompleteRefetch(q, k) ==
    /\ UNCHANGED ncalls
    /\ UNCHANGED <<sess, call, mig>>
    /\ q \in Created
    /\ k \in 1..Len(tasks[q])
    /\ tasks[q][k].pc = "settled"
    /\ LET t == tasks[q][k]
           out == RefetchTail(q, t)
       IN /\ queries' = [queries EXCEPT ![q] = out.rec]
          /\ currentTableCollector' = out.collector
          /\ dataFresh' = [dataFresh EXCEPT ![q] = IF out.changed THEN t.fresh ELSE @]
          /\ lastCall' = [lastCall EXCEPT ![q] =
                [s \in Subs |-> IF \E i \in 1..Len(out.calls) : out.calls[i].s = s
                                THEN out.rec.data ELSE @[s]]]
          /\ ev' = Event(IF t.ok THEN "resolved" ELSE "rejected", q, "", t, out.calls, <<>>)
          /\ txWatch' = IF txWatch.active /\ out.calls # <<>>
                        THEN [txWatch EXCEPT !.n[q] = @ + 1]
                        ELSE txWatch
    /\ tasks' = [tasks EXCEPT ![q] = RemoveAt(@, k)]
    /\ UNCHANGED <<db, tx, queryIdCounter, liveQueries>>

\* a subscribe that calls back whatever the data is
ImmediateCallsUnguarded(data, s) == CallsOf(<<s>>, data)

\* subscribe: `if (result.data !== undefined) callback(result.data)`
ImmediateCalls(data, s) == IF data # Undefined THEN CallsOf(<<s>>, data) ELSE <<>>

\* result.subscribe(callback)
subscribe(q, s) ==
    /\ ncalls < MaxCalls
    /\ ncalls' = ncalls + 1
    /\ UNCHANGED <<sess, call, mig>>
    /\ txWatch' = NoWatch
    /\ q \in Created
    /\ LET rec == queries[q]
           subs == IF s \in SeqRange(rec.subscribers) THEN rec.subscribers
                   ELSE Append(rec.subscribers, s)
           cs == ImmediateCalls(rec.data, s)
       IN /\ queries' = [queries EXCEPT ![q].subscribers = subs]
          /\ lastCall' = [lastCall EXCEPT ![q][s] = IF cs # <<>> THEN rec.data ELSE @]
          /\ ev' = Event("subscribe", q, s, NoTask, cs, <<>>)
    /\ UNCHANGED <<db, tx, queryIdCounter, liveQueries, tasks,
                   currentTableCollector, dataFresh>>

\* an unsubscribe function that leaves the callback in the set
DeleteSubscriberKeeps(subs, s) == subs

\* internalQuery.subscribers.delete(callback)
DeleteSubscriber(subs, s) == SelectSeq(subs, LAMBDA x : x # s)

\* the function returned by subscribe
unsubscribe(q, s) ==
    /\ ncalls < MaxCalls
    /\ ncalls' = ncalls + 1
    /\ UNCHANGED <<sess, call, mig>>
    /\ txWatch' = NoWatch
    /\ q \in Created
    /\ s \in SeqRange(queries[q].subscribers)
    /\ queries' = [queries EXCEPT ![q].subscribers = DeleteSubscriber(@, s)]
    /\ ev' = Event("unsubscribe", q, s, NoTask, <<>>, <<>>)
    /\ UNCHANGED <<db, tx, queryIdCounter, liveQueries, tasks,
                   currentTableCollector, dataFresh, lastCall>>

\* result.destroy()
destroy(q) ==
    /\ ncalls < MaxCalls
    /\ ncalls' = ncalls + 1
    /\ UNCHANGED <<sess, call, mig>>
    /\ txWatch' = NoWatch
    /\ q \in liveQueries
    /\ liveQueries' = liveQueries \ {q}
    /\ ev' = Event("destroy", q, "", NoTask, <<>>, <<>>)
    /\ UNCHANGED <<db, tx, queryIdCounter, queries, tasks,
                   currentTableCollector, dataFresh, lastCall>>

(* ------------------------------------------------------------------ *)
(* db.ts: the change router                                            *)
(* ------------------------------------------------------------------ *)

\* a router that starts no refetch
QueriesToRefetchNone(qs, registry, tableName) == {}

\* a router that serves every query ever created, destroyed or not
QueriesToRefetchUnregistered(qs, registry, tableName) ==
    {q \in DOMAIN qs : toLowerCase(tableName) \in qs[q].tableDeps}

\* a router that compares the reported name as it is, without toLowerCase()
QueriesToRefetchCaseSensitive(qs, registry, tableName) ==
    {q \in registry : tableName \in qs[q].tableDeps}

\* the registered queries for which hasOverlap is true
QueriesToRefetch(qs, registry, tableName) ==
    LET changedTables == {toLowerCase(tableName)}
    IN {q \in registry : \E dep \in qs[q].tableDeps : dep \in changedTables}

\* onTablesChanged(_type, _dbName, tableName)
onTablesChanged(S, registry, type, dbName, tableName) ==
    RefetchHead(S, QueriesToRefetch(S.queries, registry, tableName))

(* ------------------------------------------------------------------ *)
(* Mutations through the session, and the engine's update hook         *)
(* ------------------------------------------------------------------ *)

\* SQLITE_INSERT, SQLITE_DELETE, SQLITE_UPDATE as the update hook reports them
UpdateType(kind) == CASE kind = "insert" -> 18 [] kind = "delete" -> 9 [] OTHER -> 23

DbNames == {"main", "temp"}

Mutations == [kind : {"insert", "delete", "update"}, t : Tables, id : RowIds,
              quoted : BOOLEAN]

Ident(op) == IF op.quoted THEN DQuote(op.t) ELSE Word(op.t)

MutationSql(op) ==
    CASE op.kind = "insert" -> <<Word("insert"), Word("into"), Ident(op)>>
      [] op.kind = "delete" -> <<Word("delete"), Word("from"), Ident(op)>>
      [] OTHER -> <<Word("update"), Ident(op), Word("set")>>

\* the statement changes a row (otherwise the engine reports nothing)
CanApply(state, op) ==
    IF op.kind = "insert" THEN op.id \notin state[op.t] ELSE op.id \in state[op.t]

Apply(state, op) ==
    CASE op.kind = "insert" -> [state EXCEPT ![op.t] = @ \cup {op.id}]
      [] op.kind = "delete" -> [state EXCEPT ![op.t] = @ \ {op.id}]
      [] OTHER -> state

\* the rows changed: what in-flight refetches have read is no longer current
MarkStale(ts) ==
    [q \in DOMAIN ts |->
        [k \in DOMAIN ts[q] |->
            IF ts[q][k].reads # <<>> THEN [ts[q][k] EXCEPT !.fresh = FALSE]
            ELSE ts[q][k]]]

HasRoom(ts) == \A q \in DOMAIN ts : Len(ts[q]) <= MaxInflight

\* the update hook calls onTablesChanged once per reported change, in order
RECURSIVE EmitChanges(_, _, _, _)
EmitChanges(S, registry, dbName, log) ==
    IF log = <<>> THEN [S |-> S, cbs |-> <<>>]
    ELSE LET c == Head(log)
             started == QueriesToRefetch(S.queries, registry, c.t)
             S1 == onTablesChanged(S, registry, c.type, dbName, c.t)
             rest == EmitChanges(S1, registry, dbName, Tail(log))
         IN [S |-> rest.S,
             cbs |-> <<[type |-> c.type, dbName |-> dbName, tableName |-> c.t,
                        deps |-> [q \in DOMAIN S.queries |-> S.queries[q].tableDeps],
                        started |-> started]>> \o rest.cbs]

\* db.insert / db.update / db.delete outside a transaction: run() logs the
\* query, the engine executes it and its update hook fires
Mutate(op, dbName) ==
    /\ ncalls < MaxCalls
    /\ ncalls' = ncalls + 1
    /\ UNCHANGED <<sess, call, mig>>
    /\ txWatch' = NoWatch
    /\ ~tx.open
    /\ CanApply(db, op)
    /\ db' = Apply(db, op)
    /\ LET S1 == [Current EXCEPT
                    !.queries = logQuery(queries, currentTableCollector, MutationSql(op))]
           out == EmitChanges(S1, liveQueries, dbName,
                              <<[type |-> UpdateType(op.kind), t |-> op.t]>>)
           S2 == IF db' # db THEN [out.S EXCEPT !.tasks = MarkStale(@)] ELSE out.S
       IN /\ HasRoom(S2.tasks)
          /\ SetCurrent(S2)
          /\ ev' = Event("mutate", 0, "", NoTask, <<>>, out.cbs)
    /\ dataFresh' = IF db' # db THEN [q \in DOMAIN dataFresh |-> FALSE] ELSE dataFresh
    /\ UNCHANGED <<tx, queryIdCounter, liveQueries, lastCall>>

(* ------------------------------------------------------------------ *)
(* session.ts: transaction(fn)                                         *)
(* ------------------------------------------------------------------ *)

\* transaction(): the token is acquired from imperativeTx and fn starts
TransactionBegin ==
    /\ ncalls < MaxCalls
    /\ ncalls' = ncalls + 1
    /\ UNCHANGED <<sess, call, mig>>
    /\ txWatch' = [active |-> /\ Created # {}
                              /\ \A q \in Created : /\ tasks[q] = <<>>
                                                    /\ queries[q].subscribers # <<>>,
                   before |-> [q \in Created |-> queries[q].data],
                   ops |-> 0,
                   n |-> [q \in Created |-> 0]]
    /\ ~tx.open
    /\ tx' = [open |-> TRUE, state |-> db, log |-> <<>>]
    /\ ev' = Event("begin", 0, "", NoTask, <<>>, <<>>)
    /\ UNCHANGED <<db, queryIdCounter, liveQueries, queries, tasks,
                   currentTableCollector, dataFresh, lastCall>>

\* a mutation of the transaction body: logged by run(), executed on the token;
\* nothing is reported before the commit
TransactionMutate(op) ==
    /\ ncalls < MaxCalls
    /\ ncalls' = ncalls + 1
    /\ UNCHANGED <<sess, call, mig>>
    /\ UNCHANGED txWatch
    /\ tx.open
    /\ Len(tx.log) < MaxTxOps
    /\ CanApply(tx.state, op)
    /\ tx' = [tx EXCEPT !.state = Apply(@, op),
                        !.log = Append(@, [type |-> UpdateType(op.kind), t |-> op.t])]
    /\ queries' = logQuery(queries, currentTableCollector, MutationSql(op))
    /\ ev' = Event("txMutate", 0, "", NoTask, <<>>, <<>>)
    /\ UNCHANGED <<db, queryIdCounter, liveQueries, tasks, currentTableCollector,
                   dataFresh, lastCall>>

\* fn returned: the savepoint is released, release() is called and the engine
\* reports the committed changes
TransactionCommit(dbName) ==
    /\ UNCHANGED ncalls
    /\ UNCHANGED <<sess, call, mig>>
    /\ txWatch' = [txWatch EXCEPT !.ops = Len(tx.log)]
    /\ tx.open
    /\ db' = tx.state
    /\ tx' = NoTx
    /\ LET out == EmitChanges(Current, liveQueries, dbName, tx.log)
           S2 == IF db' # db THEN [out.S EXCEPT !.tasks = MarkStale(@)] ELSE out.S
       IN /\ HasRoom(S2.tasks)
          /\ SetCurrent(S2)
          /\ ev' = Event("commit", 0, "", NoTask, <<>>, out.cbs)
    /\ dataFresh' = IF db' # db THEN [q \in DOMAIN dataFresh |-> FALSE] ELSE dataFresh
    /\ UNCHANGED <<queryIdCounter, liveQueries, lastCall>>

\* fn threw: rollback to the savepoint, release() is called, nothing is reported
TransactionRollback ==
    /\ UNCHANGED ncalls
    /\ UNCHANGED <<sess, call, mig>>
    /\ txWatch' = NoWatch
    /\ tx.open
    /\ tx' = NoTx
    /\ ev' = Event("rollback", 0, "", NoTask, <<>>, <<>>)
    /\ UNCHANGED <<db, queryIdCounter, liveQueries, queries, tasks,
                   currentTableCollector, dataFresh, lastCall>>

(* ------------------------------------------------------------------ *)
(* session.ts: the control flow of transaction(fn) and its savepoints  *)
(* ------------------------------------------------------------------ *)

\* everything but sess: the steps below run on the session alone
others == <<db, tx, queryIdCounter, liveQueries, queries, tasks,
            currentTableCollector, dataFresh, lastCall, ncalls, txWatch, call,
            mig, ev>>

\* `sp${this.nestedIndex}`
savepointName(nestedIndex) == [prefix |-> "sp", index |-> nestedIndex]

\* a child transaction that keeps the index of its parent
ChildIndexSame(nestedIndex) == nestedIndex

\* new CRSQLiteTransaction(..., this.nestedIndex + 1)
ChildIndex(nestedIndex) == nestedIndex + 1

\* session.exec(query): the command goes to the bound token, without one to
\* the engine handle; the engine has not answered yet
exec(boundTx, op, name) ==
    [op |-> op, name |-> name, ok |-> "pending",
     to |-> IF boundTx # "null" THEN boundTx ELSE "client"]

\* a CRSQLiteTransaction.transaction call on the object with index d
Frame(d) == [d |-> d, at |-> "savepoint", fn |-> "notRun", err |-> "none"]

TopFrame == sess.stack[Len(sess.stack)]

Pop(stack) == SubSeq(stack, 1, Len(stack) - 1)

\* session.transaction(fn): the token is acquired, the child session and the
\* transaction object (index 0) are made, and its transaction(fn) is called: it
\* issues SAVEPOINT sp0
SessionTransaction ==
    /\ sess.top # "running"
    /\ sess' = [IdleSession EXCEPT
                   !.top = "running",
                   !.stack = <<Frame(0)>>,
                   !.cmds = <<exec("token", "SAVEPOINT", savepointName(0))>>,
                   !.fin = sess.fin,
                   !.kept = sess.kept,
                   !.op = "transaction"]
    /\ UNCHANGED others

\* fn calls transaction(fn2) on the child transaction object it was given
NestedTransaction ==
    /\ sess.top = "running"
    /\ sess.stack # <<>>
    /\ TopFrame.at = "body"
    /\ Len(sess.stack) < MaxDepth
    /\ Len(sess.cmds) < MaxCmds
    /\ LET d == ChildIndex(TopFrame.d)
       IN sess' = [sess EXCEPT
                     !.stack = Append(@, Frame(d)),
                     !.cmds = Append(@, exec("token", "SAVEPOINT", savepointName(d))),
                     !.op = "nested"]
    /\ UNCHANGED others

\* fn returns: RELEASE savepoint is issued
FnReturns ==
    /\ sess.top = "running"
    /\ sess.stack # <<>>
    /\ TopFrame.at = "body"
    /\ sess' = [sess EXCEPT
                   !.stack[Len(sess.stack)].at = "release",
                   !.stack[Len(sess.stack)].fn = "returned",
                   !.cmds = Append(@, exec("token", "RELEASE", savepointName(TopFrame.d))),
                   !.op = "fnReturns"]
    /\ UNCHANGED others

\* fn throws: the catch issues ROLLBACK TO savepoint
FnThrows ==
    /\ sess.top = "running"
    /\ sess.stack # <<>>
    /\ TopFrame.at = "body"
    /\ sess' = [sess EXCEPT
                   !.stack[Len(sess.stack)].at = "rollback",
                   !.stack[Len(sess.stack)].fn = "threw",
                   !.stack[Len(sess.stack)].err = "fnError",
                   !.cmds = Append(@, exec("token", "ROLLBACK TO", savepointName(TopFrame.d))),
                   !.op = "fnThrows"]
    /\ UNCHANGED others

\* the frame after the engine answered the command it awaits: [at, err], with
\* at = "done" when the call is over
AfterCommand(frame, ok) ==
    CASE frame.at = "savepoint" ->
            IF ok THEN [at |-> "body", err |-> "none"]
                  ELSE [at |-> "done", err |-> "savepointError"]
      [] frame.at = "release" ->
            IF ok THEN [at |-> "done", err |-> "none"]
                  ELSE [at |-> "rollback", err |-> "releaseError"]
      [] OTHER ->
            IF ok THEN [at |-> "done", err |-> frame.err]
                  ELSE [at |-> "done", err |-> "rollbackError"]

\* what a finished call hands to its caller: fn's value, or the error raised
Outcome(err) == IF err = "none" THEN "fnValue" ELSE err

\* the engine answers the awaited SAVEPOINT, RELEASE or ROLLBACK TO
CommandResult(ok) ==
    /\ sess.top = "running"
    /\ sess.stack # <<>>
    /\ TopFrame.at \in {"savepoint", "release", "rollback"}
    /\ LET frame == TopFrame
           n == Len(sess.stack)
           after == AfterCommand(frame, ok)
           answered == [sess.cmds EXCEPT ![Len(sess.cmds)].ok =
                                           IF ok THEN "ok" ELSE "failed"]
       IN IF after.at = "done"
          THEN sess' = [sess EXCEPT
                          !.stack = Pop(@),
                          !.cmds = answered,
                          !.result = [d |-> frame.d, fn |-> frame.fn,
                                      out |-> Outcome(after.err)],
                          !.top = IF n = 1 THEN "settled" ELSE @,
                          !.op = "finished"]
          ELSE sess' = [sess EXCEPT
                          !.stack[n].at = after.at,
                          !.stack[n].err = after.err,
                          !.cmds = IF after.at = "rollback"
                                   THEN Append(answered,
                                               exec("token", "ROLLBACK TO",
                                                    savepointName(frame.d)))
                                   ELSE answered,
                          !.op = "answered"]
    /\ UNCHANGED others

\* the calls of release session.transaction makes once tx.transaction(fn) is
\* over: one in the try when it returned, and the catch's one when it threw or
\* when the release in the try threw
ReleaseCalls(out, releaseThrows) ==
    IF out = "fnValue"
    THEN IF releaseThrows THEN 2 ELSE 1
    ELSE 1

\* session.transaction after its await: release() and return, or release()
\* and rethrow
FinishTransaction(releaseThrows) ==
    /\ sess.top = "settled"
    /\ sess' = [sess EXCEPT
                   !.releases = ReleaseCalls(sess.result.out, releaseThrows),
                   !.top = IF sess.result.out = "fnValue" /\ ~releaseThrows
                           THEN "returned" ELSE "threw",
                   !.kept = IF @ = "live" THEN "released" ELSE @,
                   !.op = "release"]
    /\ UNCHANGED others

Modes == {"run", "all", "get", "values"}

\* the token the statement's session is bound to: the child session of a
\* transaction holds the token, the outer session none
BoundTx ==
    IF sess.top = "running" /\ sess.stack # <<>> /\ TopFrame.at = "body"
    THEN "token" ELSE "null"

\* the first argument of the engine call in each mode
EngineCallTx(mode, boundTx) == IF mode = "values" THEN "null" ELSE boundTx

\* if (this.oneTime) void stmt.finalize(this.tx), after the awaited engine call
Finalized(oneTime, threw) == oneTime /\ ~threw

\* one more finalize call on a statement that had n
OneMore(n) == IF n < MaxFinalizes THEN n + 1 ELSE n

\* run, all, get or values of a prepared statement, from the call to its end;
\* a long-lived prepared query that was collected is out of reach
ExecuteQuery(mode, oneTime, threw) ==
    /\ \/ sess.top # "running"
       \/ sess.stack # <<>> /\ TopFrame.at = "body"
    /\ oneTime \/ ~sess.fin.collected
    /\ sess' = [sess EXCEPT
                   !.fin.single = IF Finalized(oneTime, threw) THEN OneMore(@) ELSE @,
                   !.exec = [mode |-> mode, oneTime |-> oneTime, tx |-> BoundTx,
                             passed |-> EngineCallTx(mode, BoundTx),
                             finalized |-> Finalized(oneTime, threw),
                             threw |-> threw,
                             raised |-> IF threw THEN "engineError" ELSE "none"],
                   !.op = "execute"]
    /\ UNCHANGED others

\* the body of the transaction prepares a query on the child session
\* (prepareQuery with this.tx = the token) and stores it where the application
\* can reach it later
KeepPrepared ==
    /\ sess.top = "running"
    /\ sess.stack # <<>>
    /\ TopFrame.at = "body"
    /\ sess.kept = "none"
    /\ sess' = [sess EXCEPT !.kept = "live", !.op = "prepare"]
    /\ UNCHANGED others

\* run, all, get or values of that prepared query, whenever the application
\* calls it: the methods look at nothing but this.tx, the token it was made with
ExecuteKept(mode, threw) ==
    /\ sess.kept # "none"
    /\ sess' = [sess EXCEPT
                   !.exec = [mode |-> mode, oneTime |-> FALSE, tx |-> "token",
                             passed |-> EngineCallTx(mode, "token"),
                             finalized |-> Finalized(FALSE, threw),
                             threw |-> threw,
                             raised |-> IF threw THEN "engineError" ELSE "none"],
                   !.op = "executeKept"]
    /\ UNCHANGED others

\* the long-lived prepared query becomes unreachable and the registry of its
\* session runs: heldValue.stmt.then((stmt) => stmt.finalize(heldValue.tx))
CollectStatement ==
    /\ ~sess.fin.collected
    /\ sess' = [sess EXCEPT
                   !.fin.held = OneMore(@),
                   !.fin.collected = TRUE,
                   !.op = "collect"]
    /\ UNCHANGED others

(* ------------------------------------------------------------------ *)
(* sync.ts: changesets as text                                         *)
(* ------------------------------------------------------------------ *)

\* everything but call
client == <<db, tx, queryIdCounter, liveQueries, queries, tasks,
            currentTableCollector, dataFresh, lastCall, ncalls, txWatch, sess,
            mig, ev>>

\* one change tuple as the engine hands it out: table, primary key, column,
\* value, column version, database version, site, causal length
Change(t, id, val, version) ==
    Arr(<<Str(t), Num(id), Str("name"), val, BigIntV(version), BigIntV(version),
          Str("site"), Num(1)>>)

\* the values of a column: text (also text that starts with the marker) and
\* numbers
ColumnValues == {Str("Alice"), Str("BIGINT::5"), Str("BIGINT::x"), Num(0), Num(1)}

ChangeTuples == {Change("users", 1, val, version) :
                    val \in ColumnValues, version \in BigInts}

\* the changesets of at most MaxChanges tuples
Changesets ==
    UNION {[1..n -> ChangeTuples] : n \in 0..MaxChanges}

\* the engine's pullChanges(0n) has returned the changeset cs
Pulled(cs) == [fn |-> "getChangeset", pc |-> "pulled", cs |-> Arr(cs),
               text |-> NotJson, back |-> Undefined]

\* getChangeset after its await: return jsonStringifyWithBigInt(changes)
getChangeset ==
    /\ call.fn = "getChangeset"
    /\ call.pc = "pulled"
    /\ call' = [call EXCEPT !.pc = "text", !.text = jsonStringifyWithBigInt(call.cs)]
    /\ UNCHANGED client

\* the receiving side reads the text: jsonParseWithBigInt(changeset)
ParseChangeset ==
    /\ call.fn = "getChangeset"
    /\ call.pc = "text"
    /\ call' = [call EXCEPT !.pc = "parsed", !.back = jsonParseWithBigInt(call.text)]
    /\ UNCHANGED client

\* changesets a peer made: row 1 of users, rows 1 and 2 of users, row 1 of
\* Posts, and no change at all
PeerChangesets ==
    {<<>>,
     <<Change("users", 1, Str("Alice"), 5)>>,
     <<Change("users", 1, Str("Alice"), 5), Change("users", 2, Str("Bob"), 12)>>,
     <<Change("Posts", 1, Str("Alice"), 5)>>}

\* text that is not a changeset: no JSON, an object, a tuple of five, a
\* string, a tuple next to a string, and a tuple with text the reviver cannot
\* read
CorruptTexts ==
    {NotJson,
     JsonText(Obj([f \in {"not"} |-> Str("a changeset")])),
     JsonText(Arr(<<Arr(<<Str("table"), Str("pk"), Num(1), Num(2), Num(3)>>)>>)),
     JsonText(Str("BIGINT::5")),
     JsonText(Arr(<<Stringify(Change("users", 1, Str("Alice"), 5)), Str("x")>>)),
     JsonText(Arr(<<Stringify(Change("users", 1, Str("BIGINT::x"), 5))>>))}

ChangesetTexts ==
    {jsonStringifyWithBigInt(Arr(cs)) : cs \in PeerChangesets} \cup CorruptTexts

\* a check that accepts tuples of any length
LooksLikeChangesetAnyLength(changes) ==
    /\ changes.k = "array"
    /\ \A i \in 1..Len(changes.items) : changes.items[i].k = "array"

\* Array.isArray(changes) && changes.every((c) => Array.isArray(c) && c.length === 8)
LooksLikeChangeset(changes) ==
    /\ changes.k = "array"
    /\ \A i \in 1..Len(changes.items) :
          /\ changes.items[i].k = "array"
          /\ Len(changes.items[i].items) = TupleLength

InvalidChangesetFormat ==
    Err("Invalid changeset format. Expected a JSON array of change tuples.")

\* the engine's applyChanges: each tuple whose row is not there yet writes the
\* row, and the update hook reports it
RECURSIVE ApplyChanges(_, _)
ApplyChanges(state, items) ==
    IF items = <<>> THEN [state |-> state, log |-> <<>>]
    ELSE LET c == Head(items)
             t == c.items[1].s
             id == c.items[2].n
             op == [kind |-> "insert", t |-> t, id |-> id, quoted |-> FALSE]
         IN IF t \in Tables /\ CanApply(state, op)
            THEN LET rest == ApplyChanges(Apply(state, op), Tail(items))
                 IN [state |-> rest.state,
                     log |-> <<[type |-> UpdateType("insert"), t |-> t]>> \o rest.log]
            ELSE ApplyChanges(state, Tail(items))

\* applyChangeset(client, changeset): parse, validate, and hand the changes to
\* the engine, whose update hook fires for the rows it wrote
applyChangeset(changeset) ==
    /\ ncalls < MaxCalls
    /\ ncalls' = ncalls + 1
    /\ txWatch' = NoWatch
    /\ ~tx.open
    /\ LET changes == jsonParseWithBigInt(changeset)
       IN IF changes.k = "thrown" \/ ~LooksLikeChangeset(changes)
          THEN /\ call' = [fn |-> "applyChangeset", text |-> changeset,
                           out |-> IF changes.k = "thrown" THEN Err(changes.name)
                                   ELSE InvalidChangesetFormat,
                           applied |-> 0]
               /\ ev' = Event("applyChangeset", 0, "", NoTask, <<>>, <<>>)
               /\ UNCHANGED <<db, queries, tasks, currentTableCollector, dataFresh>>
          ELSE LET a == ApplyChanges(db, changes.items)
                   out == EmitChanges(Current, liveQueries, "main", a.log)
                   S2 == IF a.state # db THEN [out.S EXCEPT !.tasks = MarkStale(@)]
                         ELSE out.S
               IN /\ HasRoom(S2.tasks)
                  /\ db' = a.state
                  /\ SetCurrent(S2)
                  /\ call' = [fn |-> "applyChangeset", text |-> changeset,
                              out |-> Undefined, applied |-> 1]
                  /\ ev' = Event("applyChangeset", 0, "", NoTask, <<>>, out.cbs)
                  /\ dataFresh' = IF a.state # db
                                  THEN [q \in DOMAIN dataFresh |-> FALSE]
                                  ELSE dataFresh
    /\ UNCHANGED <<tx, queryIdCounter, liveQueries, lastCall, sess, mig>>

(* ------------------------------------------------------------------ *)
(* The statements the session logs                                     *)
(* ------------------------------------------------------------------ *)

\* a table identifier as raw SQL writes it (bare or in backticks) and as the
\* query builder writes it (double-quoted)
Identifiers == {Word(t) : t \in Tables} \cup {Backtick(t) : t \in Tables}
                  \cup {DQuote(t) : t \in Tables}

\* select, select with a join, insert, update and delete, with the keyword
\* FROM in either letter case
LoggedStatements ==
    {<<Word("select"), Word(from), a>> : from \in {"from", "FROM"}, a \in Identifiers}
    \cup {<<Word("select"), Word(from), a, Word("join"), b>> :
              from \in {"from", "FROM"}, a \in Identifiers, b \in Identifiers}
    \cup {<<Word("insert"), Word("into"), a>> : a \in Identifiers}
    \cup {<<Word("update"), a, Word("set")>> : a \in Identifiers}
    \cup {<<Word("delete"), Word("from"), a>> : a \in Identifiers}

\* logQuery(sql, params) was called with a collector installed
Logged(sql) == [fn |-> "extractTableNames", pc |-> "called", sql |-> sql, out |-> {}]

\* const tables = extractTableNames(sql)
ExtractTables ==
    /\ call.fn = "extractTableNames"
    /\ call.pc = "called"
    /\ call' = [call EXCEPT !.pc = "done", !.out = extractTableNames(call.sql)]
    /\ UNCHANGED client

(* ------------------------------------------------------------------ *)
(* driver.ts: createLiveDB                                             *)
(* ------------------------------------------------------------------ *)

\* the methods the session and the client call on the engine handle
RequiredMethods == {"prepare", "imperativeTx", "onUpdate", "exec"}

\* an engine handle: null, undefined, or an object with some of the methods
Handles ==
    {Null, Undefined} \cup
    {Obj([m \in methods |-> Str("function")]) : methods \in SUBSET RequiredMethods}

\* config.logger: true, false, absent, or a logger object
LoggerSelectors == {"true", "false", "absent", "object"}

\* logger = new DefaultLogger() for true, config.logger unless it is false
SelectLogger(selector) ==
    CASE selector = "true" -> "DefaultLogger"
      [] selector = "object" -> "object"
      [] OTHER -> "undefined"

\* createLiveDB(crSqliteDb, config) has been called
Called(handle, hasSchema, selector) ==
    [fn |-> "createLiveDB", pc |-> "called", handle |-> handle,
     hasSchema |-> hasSchema, selector |-> selector, logger |-> "undefined",
     schema |-> "undefined", subscribed |-> FALSE, out |-> Undefined]

\* oporClient.crSqlite.onUpdate(onTablesChanged): the one use of the handle
\* during construction; a handle without it makes the call throw
CanSubscribe(handle) == handle.k = "object" /\ "onUpdate" \in DOMAIN handle.fields

\* createLiveDB: the logger, the relational schema, the session, the client,
\* the subscription to the engine's updates, and the facade
createLiveDB ==
    /\ call.fn = "createLiveDB"
    /\ call.pc = "called"
    /\ call' = [call EXCEPT
                   !.pc = "done",
                   !.logger = SelectLogger(call.selector),
                   !.schema = IF call.hasSchema THEN "relational" ELSE "undefined",
                   !.subscribed = CanSubscribe(call.handle),
                   !.out = IF CanSubscribe(call.handle) THEN Str("facade")
                           ELSE Err("TypeError")]
    /\ UNCHANGED client

(* ------------------------------------------------------------------ *)
(* migrator.ts                                                         *)
(* ------------------------------------------------------------------ *)

\* everything but mig
exceptMig == <<db, tx, queryIdCounter, liveQueries, queries, tasks,
               currentTableCollector, dataFresh, lastCall, ncalls, txWatch, sess,
               call, ev>>

\* MigrationMeta: the statements, the time stamp of the folder and the hash
Migration(sql, folderMillis, hash) ==
    [sql |-> sql, folderMillis |-> folderMillis, hash |-> hash]

Migrations ==
    {Migration(<<"create customers", "create orders">>, 1, "hash1"),
     Migration(<<"alter orders">>, 2, "hash2"),
     Migration(<<"create items">>, 3, "hash3")}

\* the lists of at most MaxMigrations distinct migrations, in any order
MigrationLists ==
    UNION {{l \in [1..n -> Migrations] : \A i, j \in 1..n : i # j => l[i] # l[j]} :
              n \in 0..MaxMigrations}

\* a read that returns the row inserted first
FirstInserted(table) == IF table = <<>> THEN Undefined ELSE table[1]

\* SELECT id, hash, created_at ... ORDER BY created_at DESC LIMIT 1, and then
\* dbMigrations ?? undefined
LastDbMigration(table) ==
    IF table = <<>> THEN Undefined
    ELSE table[CHOOSE i \in 1..Len(table) :
                   \A j \in 1..Len(table) : table[j].created_at <= table[i].created_at]

\* a test that also takes the migration of the latest row
IsPendingOrSame(lastDbMigration, migration) ==
    lastDbMigration = Undefined \/ lastDbMigration.created_at <= migration.folderMillis

\* !lastDbMigration || lastDbMigration.created_at < migration.folderMillis
IsPending(lastDbMigration, migration) ==
    lastDbMigration = Undefined \/ lastDbMigration.created_at < migration.folderMillis

\* the for loop moves on from position i to the next migration it applies
RECURSIVE NextPending(_, _, _)
NextPending(list, i, lastDbMigration) ==
    IF i > Len(list) \/ IsPending(lastDbMigration, list[i]) THEN i
    ELSE NextPending(list, i + 1, lastDbMigration)

\* the row of INSERT INTO ... VALUES(randomUUID(), migration.hash, migration.folderMillis)
Bookkeeping(migration) ==
    [hash |-> migration.hash, created_at |-> migration.folderMillis]

\* a loop that goes on after a statement failed
AfterStatementIgnoringFailure(migration, i, ok) ==
    IF i < Len(migration.sql) THEN "loop" ELSE "insert"

\* where the call is after statement i of the migration: a rejected db.run
\* leaves the function, the last statement is followed by the INSERT
AfterStatement(migration, i, ok) ==
    IF ~ok THEN "threw"
    ELSE IF i < Len(migration.sql) THEN "loop" ELSE "insert"

\* migrate(db, config) up to the first statement of a migration: return at
\* once for an empty list, else create the table if needed and read the
\* latest row
migrate(list) ==
    /\ mig.pc \in {"idle", "returned", "threw"}
    /\ LET prior == [list |-> mig.list, pc |-> mig.pc]
           lastDbMigration == LastDbMigration(mig.table)
           first == NextPending(list, 1, lastDbMigration)
       IN IF list = <<>>
          THEN mig' = [mig EXCEPT
                         !.pc = "returned", !.list = list, !.ran = <<>>,
                         !.inserted = 0, !.before = mig.table, !.out = Undefined,
                         !.prior = prior]
          ELSE mig' = [mig EXCEPT
                         !.exists = TRUE,
                         !.pc = IF first > Len(list) THEN "returned" ELSE "loop",
                         !.list = list, !.last = lastDbMigration,
                         !.next = first, !.stmt = 1, !.ran = <<>>,
                         !.inserted = 0, !.before = mig.table, !.out = Undefined,
                         !.prior = prior]
    /\ UNCHANGED exceptMig

\* await db.run(sql.raw(stmt)): the engine executes the statement or rejects
RunStatement(ok) ==
    /\ mig.pc = "loop"
    /\ LET migration == mig.list[mig.next]
       IN mig' = [mig EXCEPT
                    !.ran = Append(@, [hash |-> migration.hash,
                                       folderMillis |-> migration.folderMillis,
                                       stmt |-> mig.stmt, ok |-> ok]),
                    !.pc = AfterStatement(migration, mig.stmt, ok),
                    !.effects = IF ok THEN @ \cup {[hash |-> migration.hash,
                                                    stmt |-> mig.stmt]}
                                ELSE @,
                    !.stmt = IF ok THEN mig.stmt + 1 ELSE mig.stmt,
                    !.out = IF ok THEN Undefined
                            ELSE Err(migration.sql[mig.stmt])]
    /\ UNCHANGED exceptMig

\* the INSERT into the bookkeeping table, and on to the next migration
InsertBookkeeping ==
    /\ mig.pc = "insert"
    /\ LET following == NextPending(mig.list, mig.next + 1, mig.last)
       IN mig' = [mig EXCEPT
                    !.table = Append(@, Bookkeeping(mig.list[mig.next])),
                    !.inserted = @ + 1,
                    !.next = following,
                    !.stmt = 1,
                    !.pc = IF following > Len(mig.list) THEN "returned" ELSE "loop"]
    /\ UNCHANGED exceptMig

(* ------------------------------------------------------------------ *)
(* session.ts: a prepared statement executed by the application        *)
(* ------------------------------------------------------------------ *)

\* the SELECT statements the application prepares: raw SQL with a bare or a
\* backtick identifier, and the query builder's double-quoted identifier
PreparedStatements ==
    {<<Word("select"), Word("from"), a>> :
        a \in {Word("users"), Backtick("Posts"), DQuote("users")}}

PlaceholderValues == {<<>>, <<Num(1)>>}

\* run(), all(), get(), values() up to `await this.stmt`: fillPlaceholders,
\* then logQuery(sql, params), which calls the logger
BeforeDispatch(mode, sql, params) ==
    [fn |-> "execute", mode |-> mode, sql |-> sql, params |-> params,
     pc |-> "logged", logged |-> <<[sql |-> sql, params |-> params]>>,
     collector |-> currentTableCollector]

\* the application executes a prepared statement, in a builder or outside:
\* logQuery feeds the collector that is installed at that moment
PreparedLogged(mode, sql, params) ==
    /\ IF call.fn = "execute" THEN call.pc # "logged" ELSE TRUE
    /\ call' = BeforeDispatch(mode, sql, params)
    /\ queries' = logQuery(queries, currentTableCollector, sql)
    /\ ev' = Event("prepared", 0, "", NoTask, <<>>, <<>>)
    /\ UNCHANGED <<db, tx, queryIdCounter, liveQueries, tasks,
                   currentTableCollector, dataFresh, lastCall, ncalls, txWatch,
                   sess, mig>>

\* `await stmt.run / all / get(...)`: the engine executes the statement, or
\* fails
PreparedDispatched(threw) ==
    /\ call.fn = "execute"
    /\ call.pc = "logged"
    /\ call' = [call EXCEPT !.pc = IF threw THEN "failed" ELSE "returned"]
    /\ ev' = Event("dispatched", 0, "", NoTask, <<>>, <<>>)
    /\ UNCHANGED <<db, tx, queryIdCounter, liveQueries, queries, tasks,
                   currentTableCollector, dataFresh, lastCall, ncalls, txWatch,
                   sess, mig>>

(* ------------------------------------------------------------------ *)
(* Specifications                                                      *)
(* ------------------------------------------------------------------ *)

Outcomes == {"rows", "engineError", "builderThrows"}

\* the steps of the refetches in flight
RefetchSteps(outcomes) ==
    \/ \E q \in Created : \E k \in 1..MaxInflight : ExecuteStatement(q, k)
    \/ \E q \in Created : \E k \in 1..MaxInflight :
          \E outcome \in outcomes : StatementResult(q, k, outcome)
    \/ \E q \in Created : \E k \in 1..MaxInflight : CompleteRefetch(q, k)

\* mutations written with bare identifiers, as raw SQL is
BareMutations == {op \in Mutations : ~op.quoted}

\* the mutations of the row with primary key 1
RowOne == {op \in BareMutations : op.id = 1}

\* One live query with subscribers, mutations outside transactions.
Next ==
    \/ \E b \in {BuilderGet, BuilderCond} : queryIdCounter = 0 /\ createLiveQuery(b)
    \/ \E q \in Created : refetch(q)
    \/ RefetchSteps(Outcomes)
    \/ \E q \in Created : \E s \in Subs : subscribe(q, s)
    \/ \E q \in Created : \E s \in Subs : unsubscribe(q, s)
    \/ \E q \in Created : destroy(q)
    \/ \E op \in RowOne : Mutate(op, "main")

Spec == Init /\ [][Next]_vars

\* Several live queries and the change router: no subscribers, no failures.
NextRouter ==
    \/ \E b \in {BuilderUsers, BuilderPosts} : createLiveQuery(b)
    \/ \E q \in Created : \E k \in 1..MaxInflight :
          BuilderCallsLiveQuery(q, k, BuilderUsers)
    \/ RefetchSteps({"rows"})
    \/ \E q \in Created : ncalls < MaxRouterCalls /\ destroy(q)
    \/ \E op \in {m \in RowOne : m.kind # "update"} : \E dbName \in DbNames :
          ncalls < MaxRouterCalls /\ Mutate(op, dbName)

SpecRouter == Init /\ [][NextRouter]_vars

\* One live query with one subscriber and a transaction on its table.
NextTx ==
    \/ queryIdCounter = 0 /\ createLiveQuery(BuilderUsers)
    \/ RefetchSteps({"rows"})
    \/ \E q \in Created : subscribe(q, "s1")
    \/ \E op \in {m \in RowOne : m.t = "users"} : Mutate(op, "main")
    \/ TransactionBegin
    \/ \E op \in {m \in BareMutations : m.t = "users" /\ m.kind # "update"} :
          TransactionMutate(op)
    \/ TransactionCommit("main")
    \/ TransactionRollback

SpecTx == Init /\ [][NextTx]_vars

\* One live query written with the query builder or as raw SQL, its subscriber
\* and mutations of its table. The event loop runs every pending continuation:
\* a refetch in flight takes its next step.
NextFair ==
    \/ \E b \in {BuilderDrizzle, BuilderUsers} : queryIdCounter = 0 /\ createLiveQuery(b)
    \/ RefetchSteps({"rows"})
    \/ \E q \in Created : subscribe(q, "s1")
    \/ \E op \in {m \in Mutations : m.t = "users" /\ m.id = 1 /\ m.kind # "update"} :
          Mutate(op, "main")

FairSpec == Init /\ [][NextFair]_vars /\ WF_vars(RefetchSteps({"rows"}))

\* the session alone: transactions with nested calls, and statement executions
NextSession ==
    \/ SessionTransaction
    \/ NestedTransaction
    \/ FnReturns
    \/ FnThrows
    \/ \E ok \in BOOLEAN : CommandResult(ok)
    \/ \E releaseThrows \in BOOLEAN : FinishTransaction(releaseThrows)
    \/ \E mode \in Modes : \E oneTime \in BOOLEAN : \E threw \in BOOLEAN :
          ExecuteQuery(mode, oneTime, threw)
    \/ CollectStatement
    \/ KeepPrepared
    \/ \E mode \in Modes : \E threw \in BOOLEAN : ExecuteKept(mode, threw)

SpecSession == Init /\ [][NextSession]_vars

\* One live query with one subscriber on a client that receives changesets.
NextSync ==
    \/ queryIdCounter = 0 /\ createLiveQuery(BuilderUsers)
    \/ RefetchSteps({"rows"})
    \/ \E q \in Created : subscribe(q, "s1")
    \/ \E changeset \in ChangesetTexts : applyChangeset(changeset)

SpecSync == Init /\ [][NextSync]_vars

\* the same, where a refetch in flight takes its next step
FairSync == Init /\ [][NextSync]_vars /\ WF_vars(RefetchSteps({"rows"}))

\* migrate called again and again with lists of the three migrations
NextMigrate ==
    \/ \E list \in MigrationLists : migrate(list)
    \/ \E ok \in BOOLEAN : RunStatement(ok)
    \/ InsertBookkeeping

SpecMigrate == Init /\ [][NextMigrate]_vars

\* extractTableNames on every statement the session logs
InitStatements == InitClient /\ call \in {Logged(sql) : sql \in LoggedStatements}

NextStatements == ExtractTables

SpecStatements == InitStatements /\ [][NextStatements]_vars

\* createLiveDB on every kind of engine handle and configuration
InitDriver ==
    InitClient /\ call \in {Called(handle, hasSchema, selector) :
                                handle \in Handles, hasSchema \in BOOLEAN,
                                selector \in LoggerSelectors}

NextDriver == createLiveDB

SpecDriver == InitDriver /\ [][NextDriver]_vars

\* a changeset of the engine written as text and read back
InitChangeset == InitClient /\ call \in {Pulled(cs) : cs \in Changesets}

NextChangeset ==
    \/ getChangeset
    \/ ParseChangeset

SpecChangeset == InitChangeset /\ [][NextChangeset]_vars


\* One live query whose builder reads users or throws when it is called, its
\* refetches with every outcome, subscribers and mutations of users.
NextSnapshot ==
    \/ \E b \in {BuilderUsers, BuilderThrows} : queryIdCounter = 0 /\ createLiveQuery(b)
    \/ \E q \in Created : refetch(q)
    \/ RefetchSteps(Outcomes)
    \/ \E q \in Created : \E s \in Subs : subscribe(q, s)
    \/ \E op \in {m \in RowOne : m.t = "users"} : Mutate(op, "main")

SpecSnapshot == Init /\ [][NextSnapshot]_vars

\* Two live queries whose builders read users or throw when they are called,
\* and their refetches with every outcome.
NextCollector ==
    \/ \E b \in {BuilderUsers, BuilderThrows} : createLiveQuery(b)
    \/ \E q \in Created : ncalls < MaxRouterCalls /\ refetch(q)
    \/ RefetchSteps(Outcomes)

SpecCollector == Init /\ [][NextCollector]_vars

\* One live query and prepared statements the application executes while the
\* collector is installed for it, and afterwards.
NextLogging ==
    \/ queryIdCounter = 0 /\ createLiveQuery(BuilderUsers)
    \/ RefetchSteps({"rows"})
    \/ \E mode \in Modes : \E sql \in PreparedStatements :
          \E params \in PlaceholderValues : PreparedLogged(mode, sql, params)
    \/ \E threw \in BOOLEAN : PreparedDispatched(threw)

SpecLogging == Init /\ [][NextLogging]_vars

(* ------------------------------------------------------------------ *)
(* Claims                                                              *)
(* ------------------------------------------------------------------ *)

\* the number of elements of the sequence sq that satisfy Test
CountOf(sq, Test(_)) == Cardinality({i \in 1..Len(sq) : Test(sq[i])})

\* the data of every registered live query that has subscribers is the result
\* of its builder on the current database state, and it is what each of its
\* subscribers was last called with
UpToDate ==
    \A q \in liveQueries :
        queries[q].subscribers # <<>> =>
            /\ queries[q].data = RunBuilder(db, queries[q].builder, <<>>)
            /\ \A s \in SeqRange(queries[q].subscribers) :
                   lastCall[q][s] = queries[q].data

\* C1: for a live query with a subscriber, after a mutation through the session
\* has changed the result of its builder, the subscriber is eventually called
\* with the new result and the data is the builder's result on the current
\* database state.
C1_SubscriberSeesEveryChange == (~UpToDate) ~> UpToDate

\* C2: for every engine callback (changeType, dbName, tableName) and every
\* query, a refetch of the query is started by that callback if and only if
\* the query is registered and lowercase(tableName) is in its dependency set as
\* it is when the callback runs; changeType and dbName play no part.
C2_RouterDecision ==
    [][\A q \in Created :
          Len(tasks'[q]) - Len(tasks[q]) =
             CountOf(ev'.cbs, LAMBDA c : /\ q \in liveQueries
                                         /\ toLowerCase(c.tableName) \in c.deps[q])
       \/ ev'.cbs = <<>>]_vars

\* a callback for the table declared as Posts started the refetch of the query
\* that depends on posts and left another registered query alone
C2_Witness ==
    /\ ev.cbs # <<>>
    /\ ev.cbs[1].tableName = "Posts"
    /\ ev.cbs[1].started # {}
    /\ liveQueries \ ev.cbs[1].started # {}

\* C3: no two consecutive calls of one subscriber of a query carry structurally
\* equal data, whatever refetches (overlapping ones, builders that return
\* undefined in between) make the calls.
C3_NoEqualConsecutiveCalls ==
    [][ev'.op = "resolved" =>
          \A i \in 1..Len(ev'.calls) :
             lastCall[ev'.q][ev'.calls[i].s] # ev'.calls[i].data]_vars

\* C4: a refetch whose builder throws sets error to the thrown value (wrapped in
\* an Error if it is not one), leaves data as it was and calls no subscriber;
\* a refetch whose builder succeeds sets error back to undefined.
C4_BuilderFailure ==
    [][/\ ev'.op = "rejected" =>
            /\ queries'[ev'.q].error =
                  (IF ev'.task.val.k = "error" THEN ev'.task.val
                   ELSE Err(ev'.task.val.s))
            /\ queries'[ev'.q].data = queries[ev'.q].data
            /\ ev'.calls = <<>>
       /\ ev'.op = "resolved" => queries'[ev'.q].error = Undefined]_vars

\* the builder executions of query q that have not settled yet
BuildersInFlight(q) == {k \in 1..Len(tasks[q]) : tasks[q][k].pc # "settled"}

\* C5: refetches of one live query are serialized: at no time are two
\* executions of the same query's builder in flight.
C5_Serialized == \A q \in Created : Cardinality(BuildersInFlight(q)) <= 1

\* C6: a refetch that completes later never replaces data read from the
\* current database state by data read from a strictly older state.
C6_DataNeverMovesBack ==
    [][~(/\ ev'.op = "resolved"
         /\ dataFresh[ev'.q]
         /\ ~ev'.task.fresh
         /\ queries'[ev'.q].data # queries[ev'.q].data)]_vars

\* the tables referenced by the statements that the builder of refetch t of
\* query q executed
ExecutedTables(q, t) ==
    UNION {SeqRange(ReferencedTables(queries[q].builder.stmts[i].sql, 1)) :
              i \in 1..Len(t.reads)}

\* C7: however live queries are registered and interleaved, after the first-run
\* refetch of a query has succeeded its dependency set contains every table
\* referenced by the statements its own builder executed.
C7_FirstRunCollectsOwnTables ==
    [][(ev'.op = "resolved" /\ ev'.task.first) =>
          ExecutedTables(ev'.q, ev'.task) \subseteq queries'[ev'.q].tableDeps]_vars

\* C8: after every successful refetch the dependency set contains every table
\* touched by the statements of that execution, also in a run later than the
\* first.
C8_DepsCoverLatestRun ==
    [][ev'.op = "resolved" =>
          ExecutedTables(ev'.q, ev'.task) \subseteq queries'[ev'.q].tableDeps]_vars

\* the queries whose dependency set holds every table the latest transaction
\* changed (here: users)
DependsOnUsers(q) == "users" \in queries[q].tableDeps

C11_UnsubscribedNeverCalled ==
    [][/\ ev'.op = "unsubscribe" =>
            SeqRange(queries'[ev'.q].subscribers) =
               SeqRange(queries[ev'.q].subscribers) \ {ev'.s}
       /\ ev'.op \in {"resolved", "rejected"} =>
            \A i \in 1..Len(ev'.calls) :
               ev'.calls[i].s \in SeqRange(queries[ev'.q].subscribers)]_vars

\* a refetch called the remaining subscriber while s1, called earlier, is
\* unsubscribed
C11_Witness ==
    /\ ev.op = "resolved"
    /\ ev.calls # <<>>
    /\ lastCall[ev.q]["s1"] # NoCall
    /\ "s1" \notin SeqRange(queries[ev.q].subscribers)

\* C12: an engine callback starts no refetch and changes nothing of a destroyed
\* query, whatever table it names, and still starts the refetch of every
\* registered query that depends on the table.
C12_DestroyedNotServed ==
    [][\A i \in 1..Len(ev'.cbs) :
          /\ ev'.cbs[i].started \subseteq liveQueries
          /\ \A q \in liveQueries :
                 toLowerCase(ev'.cbs[i].tableName) \in ev'.cbs[i].deps[q]
                    => q \in ev'.cbs[i].started
          /\ \A q \in Created \ liveQueries :
                 /\ Len(tasks'[q]) = Len(tasks[q])
                 /\ queries'[q].loading = queries[q].loading]_vars

\* a callback for a table that a destroyed query depends on started the
\* refetch of a registered query and none of the destroyed one
C12_Witness ==
    /\ ev.cbs # <<>>
    /\ ev.cbs[1].started # {}
    /\ \E q \in Created \ liveQueries :
          toLowerCase(ev.cbs[1].tableName) \in ev.cbs[1].deps[q]

\* C13: after destroy() no subscriber of the query is called again: a refetch
\* in flight may complete, but its notifications are suppressed.
C13_NoCallsAfterDestroy ==
    [][(ev'.op \in {"resolved", "rejected"} /\ ev'.q \notin liveQueries)
          => ev'.calls = <<>>]_vars

\* C14: a refetch that changes data calls every subscriber with the new data,
\* also those registered after one that throws, and the exception is not
\* propagated: it does not become the error of the snapshot.
C14_ThrowingSubscriberIsolated ==
    [][(/\ ev'.op = "resolved"
        /\ queries'[ev'.q].data # queries[ev'.q].data
        /\ queries'[ev'.q].data # Undefined)
          => /\ ev'.calls = CallsOf(queries[ev'.q].subscribers, queries'[ev'.q].data)
             /\ queries'[ev'.q].error = Undefined]_vars

\* C15: the calls of one refetch are made in its own step, with the data it
\* just stored, to the subscribers in the order of their registration (up to
\* the first one that throws), and only by a refetch that changed the data.
C15_CallsInRegistrationOrder ==
    [][ev'.op \in {"resolved", "rejected"} =>
          /\ Len(ev'.calls) <= Len(queries[ev'.q].subscribers)
          /\ \A i \in 1..Len(ev'.calls) :
                 /\ ev'.calls[i].s = queries[ev'.q].subscribers[i]
                 /\ ev'.calls[i].data = queries'[ev'.q].data
          /\ ev'.calls # <<>> => /\ queries'[ev'.q].data # queries[ev'.q].data
                                 /\ ~queries'[ev'.q].loading
          /\ (ev'.calls # <<>> /\ ev'.calls[Len(ev'.calls)].s \notin ThrowingSubs)
                 => Len(ev'.calls) = Len(queries[ev'.q].subscribers)]_vars

\* a refetch called two subscribers, one after the other
C15_Witness == ev.op = "resolved" /\ Len(ev.calls) = 2

\* C16: a liveQuery call made by a builder while the collector is installed for
\* the first-run refetch of its query fails: no query is registered, and the
\* collector and the dependency sets stay as they were.
C16_NestedLiveQueryRejected ==
    [][(/\ ev'.op = "liveQuery"
        /\ currentTableCollector # 0
        /\ \E k \in 1..Len(tasks[currentTableCollector]) :
              /\ tasks[currentTableCollector][k].first
              /\ tasks[currentTableCollector][k].pc = "job")
          => /\ queryIdCounter' = queryIdCounter
             /\ liveQueries' = liveQueries
             /\ currentTableCollector' = currentTableCollector]_vars

\* C17: once session.transaction(fn) is over (fn returned, fn threw, a
\* savepoint command failed, or the release call failed), the release function
\* of the token has been called exactly once
C17_ReleasedExactlyOnce ==
    sess.top \in {"returned", "threw"} => sess.releases = 1

\* the savepoints open after one more command of the log, and whether every
\* command so far named the savepoint of its depth
AfterOne(st, c) ==
    IF ~st.ok THEN st
    ELSE CASE c.op = "SAVEPOINT" ->
                IF c.name # savepointName(Len(st.open)) THEN [st EXCEPT !.ok = FALSE]
                ELSE IF c.ok = "failed" THEN st
                ELSE [st EXCEPT !.open = Append(@, c.name)]
           [] c.op = "RELEASE" ->
                IF st.open = <<>> \/ c.name # st.open[Len(st.open)]
                THEN [st EXCEPT !.ok = FALSE]
                ELSE IF c.ok = "ok" THEN [st EXCEPT !.open = Pop(@)]
                ELSE st
           [] OTHER ->
                IF st.open = <<>> \/ c.name # st.open[Len(st.open)]
                THEN [st EXCEPT !.ok = FALSE]
                ELSE IF c.ok = "pending" THEN st
                ELSE [st EXCEPT !.open = Pop(@)]

RECURSIVE Bracketing(_, _)
Bracketing(cmds, n) ==
    IF n = 0 THEN [ok |-> TRUE, open |-> <<>>]
    ELSE AfterOne(Bracketing(cmds, n - 1), cmds[n])

\* the latest command of the log and the one before it
LastCmd == sess.cmds[Len(sess.cmds)]
PrevCmd == sess.cmds[Len(sess.cmds) - 1]

C19_ExecutedWithBoundToken ==
    sess.op = "execute" /\ sess.exec.tx = "token" => sess.exec.passed = "token"

\* C20: a single-use statement is finalized at the end of its one execution in
\* every mode, also when the engine call throws, and the engine's error is
\* what the execution raises
C20_OneTimeStatementFinalized ==
    sess.op = "execute" /\ sess.exec.oneTime =>
        /\ sess.exec.finalized
        /\ sess.exec.threw => sess.exec.raised = "engineError"

\* C21: finalize is never called twice on the engine statement of a prepared
\* query; the single-use one has been finalized once when its execution is
\* over, and the long-lived one once when the finalizer of the registry ran
C21_FinalizedExactlyOnce ==
    /\ sess.fin.single <= 1
    /\ sess.fin.held <= 1
    /\ sess.op = "execute" /\ sess.exec.oneTime => sess.fin.single = 1
    /\ sess.fin.collected => sess.fin.held = 1

\* C22: applyChangeset rejects with 'Invalid changeset format. Expected a JSON
\* array of change tuples.' whenever the text parses to a value that is not an
\* array of arrays of length 8; then, and when the text does not parse, the
\* engine's applyChanges is not called and the database and the live queries
\* are as before; a text that parses to an array of arrays of length 8 reaches
\* applyChanges exactly once
C22_InvalidChangesetRejected ==
    [][ev'.op = "applyChangeset" =>
         LET parsed == jsonParseWithBigInt(call'.text)
             wellFormed ==
                 /\ parsed.k = "array"
                 /\ \A i \in 1..Len(parsed.items) :
                       /\ parsed.items[i].k = "array"
                       /\ Len(parsed.items[i].items) = 8
         IN /\ parsed.k # "thrown" /\ ~wellFormed =>
                  call'.out = Err("Invalid changeset format. Expected a JSON array of change tuples.")
            /\ parsed.k = "thrown" \/ ~wellFormed =>
                  /\ call'.applied = 0
                  /\ call'.out.k = "error"
                  /\ UNCHANGED <<db, liveQueries, queries, tasks, lastCall>>
            /\ parsed.k # "thrown" /\ wellFormed => call'.applied = 1]_vars

\* a changeset text with a tuple of five was rejected on a client that has a
\* live query with data
C22_Witness ==
    /\ ev.op = "applyChangeset"
    /\ call.out = InvalidChangesetFormat
    /\ call.text.tree.k = "array"
    /\ liveQueries # {}
    /\ queries[1].data # Undefined

\* C23: a changeset written by jsonStringifyWithBigInt and read back by
\* jsonParseWithBigInt is the changeset that was written, position by position
\* and type by type
C23_RoundTrip ==
    call.fn = "getChangeset" /\ call.pc = "parsed" => call.back = call.cs

C25_MigrateIdempotent ==
    mig.prior.pc = "returned" /\ mig.prior.list = mig.list =>
        /\ mig.ran = <<>>
        /\ mig.inserted = 0
        /\ mig.table = mig.before

\* the second of two completed calls with the same list of two migrations
C25_Witness ==
    /\ mig.pc = "returned"
    /\ mig.prior.pc = "returned"
    /\ mig.prior.list = mig.list
    /\ Len(mig.list) = 2
    /\ Len(mig.table) = 2

\* C26: the statements one migrate call executes are those of its pending
\* migrations in ascending folderMillis order, whatever the order of the list
C26_AppliedInFolderOrder ==
    \A i, j \in 1..Len(mig.ran) :
        i < j => mig.ran[i].folderMillis <= mig.ran[j].folderMillis

\* the highest created_at of the rows, 0 for a table without rows
HighestCreatedAt(table) ==
    IF table = <<>> THEN 0
    ELSE LET at == {table[i].created_at : i \in 1..Len(table)}
         IN CHOOSE x \in at : \A y \in at : y <= x

\* the migrations among the first n of the list whose folderMillis is above
\* the highest created_at of the table
PendingAmong(list, n, table) ==
    SelectSeq(SubSeq(list, 1, n),
              LAMBDA m : m.folderMillis > HighestCreatedAt(table))

\* the rows of the migrations of a list, in order
RowsOf(list) ==
    [i \in 1..Len(list) |-> [hash |-> list[i].hash, created_at |-> list[i].folderMillis]]

\* the statements of the migrations of a list, in order, all executed
RECURSIVE StatementsOf(_)
StatementsOf(list) ==
    IF list = <<>> THEN <<>>
    ELSE [i \in 1..Len(Head(list).sql) |->
             [hash |-> Head(list).hash, folderMillis |-> Head(list).folderMillis,
              stmt |-> i, ok |-> TRUE]] \o StatementsOf(Tail(list))

\* C27: when a statement of migration m has failed, the call has rejected with
\* the error of that statement, and the bookkeeping table is the table the call
\* started with followed by one row for each migration the call fully applied
\* before m: no row for m, none for a migration behind it in the list
C27_FailedMigrationNotRecorded ==
    mig.ran # <<>> /\ ~mig.ran[Len(mig.ran)].ok =>
        LET failed == mig.ran[Len(mig.ran)]
            at == CHOOSE n \in 1..Len(mig.list) : mig.list[n].hash = failed.hash
        IN /\ mig.pc = "threw"
           /\ mig.out = Err(mig.list[at].sql[failed.stmt])
           /\ mig.table = mig.before \o RowsOf(PendingAmong(mig.list, at - 1, mig.before))
           /\ \A n \in at..Len(mig.list) :
                 \A i \in Len(mig.before) + 1..Len(mig.table) :
                    mig.table[i].hash # mig.list[n].hash

\* the second migration of a list failed after the first was applied and
\* recorded
C27_Witness ==
    /\ mig.pc = "threw"
    /\ mig.inserted = 1
    /\ Len(mig.list) = 3
    /\ mig.next = 2

\* C28: a migrate call that completes has executed, in list order, all
\* statements of exactly the migrations of its list whose folderMillis is above
\* the highest created_at of the bookkeeping table it started with (all of the
\* list when the table had no row), and has appended one row with the hash and
\* the folderMillis of each of them; it executed nothing of the others
C28_AppliesExactlyPending ==
    mig.pc = "returned" =>
        LET pending == PendingAmong(mig.list, Len(mig.list), mig.before)
        IN /\ mig.ran = StatementsOf(pending)
           /\ mig.table = mig.before \o RowsOf(pending)
           /\ mig.inserted = Len(pending)

\* a database migrated with the first migration receives the second one only
C28_Witness ==
    /\ mig.pc = "returned"
    /\ Len(mig.before) = 1
    /\ mig.before[1].created_at = 1
    /\ Len(mig.list) = 2
    /\ mig.list[1].folderMillis = 1
    /\ mig.inserted = 1

\* C29: createLiveDB throws and subscribes to nothing when the engine handle
\* is null, undefined or lacks one of prepare, imperativeTx, onUpdate, exec; it
\* returns the facade when the handle has them all and the schema is absent
C29_InvalidHandleRejected ==
    call.fn = "createLiveDB" /\ call.pc = "done" =>
        LET valid == /\ call.handle.k = "object"
                     /\ RequiredMethods \subseteq DOMAIN call.handle.fields
        IN /\ ~valid => call.out.k = "error" /\ ~call.subscribed
           /\ valid /\ ~call.hasSchema => call.out = Str("facade")

\* C30: for every statement the session executes, with the table identifier
\* bare, in backticks or double-quoted after FROM, JOIN, UPDATE, INTO or DELETE
\* FROM in any letter case, extractTableNames returns lowercase names, among
\* them every table the statement references
C30_NoTableMissed ==
    call.fn = "extractTableNames" /\ call.pc = "done" =>
        /\ SeqRange(ReferencedTables(call.sql, 1)) \subseteq call.out
        /\ \A name \in call.out : toLowerCase(name) = name

\* C31: right after liveQuery(builder) returns the snapshot has data undefined,
\* error undefined and loading true; loading is true as long as no refetch of
\* the query has reached a terminal state and false right after the first one
\* did; data is defined only if a refetch of the query has succeeded.
C31_SnapshotLifecycle ==
    [][/\ ev'.op = "liveQuery" =>
            /\ queries'[ev'.q].data = Undefined
            /\ queries'[ev'.q].error = Undefined
            /\ queries'[ev'.q].loading
       /\ \A q \in 1..queryIdCounter' :
            /\ ~queries'[q].completed => queries'[q].loading
            /\ queries'[q].data # Undefined => queries'[q].succeeded
       /\ \A q \in Created :
            (~queries[q].completed /\ queries'[q].completed) => ~queries'[q].loading]_vars

\* C32: every refetch of a live query that starts while no refetch of the query
\* has succeeded yet is a first run: it installs the collector pointing at the
\* dependency set of the query, also after a failed run in which a statement
\* already recorded a table in that set.
C32_CollectorUntilFirstSuccess ==
    [][\A q \in Created :
          (Len(tasks'[q]) > Len(tasks[q]) /\ ~queries[q].succeeded) =>
              /\ tasks'[q][Len(tasks'[q])].first
              /\ currentTableCollector' = q]_vars

\* C33: the loading flag of the snapshot is true whenever a refetch of the
\* query is in flight, also when refetches of the query overlap and one of
\* them completes before the others.
C33_LoadingWhileInFlight ==
    \A q \in Created : tasks[q] # <<>> => queries[q].loading

\* C34: the collector slot is null or the dependency set of a live query that
\* has a first-run refetch in flight; when no refetch is in flight it is null,
\* whether the last refetch succeeded or failed.
C34_CollectorNullWhenIdle ==
    /\ currentTableCollector # 0 =>
          \E k \in 1..Len(tasks[currentTableCollector]) :
             tasks[currentTableCollector][k].first
    /\ (\A q \in Created : tasks[q] = <<>>) => currentTableCollector = 0

\* the first run of the second query failed after the collector had been
\* installed for it, and no refetch is in flight
C34_Witness ==
    /\ ev.op = "rejected"
    /\ ev.q = 2
    /\ ev.task.first
    /\ \A q \in Created : tasks[q] = <<>>

\* C35: when the engine is asked to execute a prepared statement (run, all,
\* get, values), the logger has received (sql, params) and, if a collector was
\* installed, the tables of the statement are in it; also when the engine call
\* then fails.
C35_LoggedBeforeDispatch ==
    [][(call'.fn = "execute" /\ call'.pc \in {"returned", "failed"}
                             /\ call.pc \notin {"returned", "failed"}) =>
          /\ call.pc = "logged"
          /\ call.logged = <<[sql |-> call.sql, params |-> call.params]>>
          /\ call.collector # 0 =>
                SeqRange(ReferencedTables(call.sql, 1))
                   \subseteq queries[call.collector].tableDeps]_vars

\* C36: the dependency set of a live query changes only when a statement of
\* its own builder is executed, and then only by tables of that statement:
\* mutations, builders of other live queries and refetches of other queries
\* leave it as it is.
C36_DepsOnlyFromOwnBuilder ==
    [][\A q \in Created :
          queries'[q].tableDeps # queries[q].tableDeps =>
              /\ ev'.op = "logQuery"
              /\ ev'.q = q
              /\ queries'[q].tableDeps \ queries[q].tableDeps \subseteq
                    UNION {SeqRange(ReferencedTables(queries[q].builder.stmts[i].sql, 1)) :
                              i \in 1..Len(queries[q].builder.stmts)}]_vars

\* C37: the error of the snapshot changes only when a refetch of the query
\* completes; it is defined after a refetch whose builder threw and undefined
\* after a refetch whose builder succeeded, whatever the subscribers do when
\* they are notified.
C37_ErrorOnlyFromBuilder ==
    [][\A q \in Created :
          /\ queries'[q].error # queries[q].error =>
                (ev'.op \in {"resolved", "rejected"} /\ ev'.q = q)
          /\ (ev'.op = "rejected" /\ ev'.q = q) => queries'[q].error # Undefined
          /\ (ev'.op = "resolved" /\ ev'.q = q) => queries'[q].error = Undefined]_vars

\* the savepoints open on the engine after it answered the commands cmds, first
\* to last, with the semantics of SQLite: SAVEPOINT pushes the name, RELEASE
\* removes the latest savepoint of that name and every later one, ROLLBACK TO
\* removes the later ones and keeps the named one; a failed command changes
\* nothing
RECURSIVE EngineSavepoints(_, _)
EngineSavepoints(cmds, open) ==
    IF cmds = <<>> THEN open
    ELSE LET c == Head(cmds)
             at == {i \in 1..Len(open) : open[i] = c.name}
             latest == CHOOSE i \in at : \A j \in at : j <= i
         IN EngineSavepoints(Tail(cmds),
               CASE c.ok # "ok" -> open
                 [] c.op = "SAVEPOINT" -> Append(open, c.name)
                 [] at = {} -> open
                 [] c.op = "RELEASE" -> SubSeq(open, 1, latest - 1)
                 [] OTHER -> SubSeq(open, 1, latest))

\* the position in cmds of the SAVEPOINT command of the transaction call on the
\* object with index d that is in progress or has just settled
OpenedAt(cmds, d) ==
    CHOOSE i \in 1..Len(cmds) :
        /\ cmds[i].op = "SAVEPOINT" /\ cmds[i].name = savepointName(d)
        /\ \A j \in (i + 1)..Len(cmds) :
              ~(cmds[j].op = "SAVEPOINT" /\ cmds[j].name = savepointName(d))

\* C38: when a transaction call settles, by return or by throw, the savepoints
\* open on the engine are the ones that were open before the call issued its
\* SAVEPOINT: none that the call opened is left.
C38_NoSavepointLeftOpen ==
    [][sess'.op = "finished" =>
          EngineSavepoints(sess'.cmds, <<>>) =
             EngineSavepoints(SubSeq(sess'.cmds, 1,
                                     OpenedAt(sess'.cmds, sess'.result.d) - 1),
                              <<>>)]_vars

\* C39: in a top-level transaction release is called only once the body and
\* the closing savepoint command have settled (no call in progress, no command
\* unanswered), and a statement prepared against the child session is never
\* dispatched to the engine after the transaction called release.
C39_NothingAfterRelease ==
    [][/\ sess'.op = "release" =>
            /\ sess.stack = <<>>
            /\ \A i \in 1..Len(sess.cmds) : sess.cmds[i].ok # "pending"
            /\ sess.result.d = 0
       /\ sess'.op = "executeKept" => sess.kept # "released"]_vars

\* C40: whenever migrate has settled, also after a failure in the middle of a
\* migration, each migration is either applied and recorded (all its
\* statements have taken effect and its bookkeeping row exists) or neither (no
\* statement of it has taken effect and it has no row).
C40_MigrationAtomic ==
    mig.pc \in {"returned", "threw"} =>
        \A m \in Migrations :
            LET done == {i \in 1..Len(m.sql) :
                            [hash |-> m.hash, stmt |-> i] \in mig.effects}
                row == \E r \in 1..Len(mig.table) : mig.table[r].hash = m.hash
            IN \/ done = 1..Len(m.sql) /\ row
               \/ done = {} /\ ~row

\* C10: subscribe(cb) registers cb and calls it during the subscribe call, once
\* and with the current data, exactly if data is not undefined; any other call
\* of a subscriber is made by a refetch that changed data.
C10_SubscribeCallsBack ==
    [][/\ ev'.op = "subscribe" =>
            /\ ev'.s \in SeqRange(queries'[ev'.q].subscribers)
            /\ queries[ev'.q].data = Undefined => ev'.calls = <<>>
            /\ queries[ev'.q].data # Undefined =>
                  ev'.calls = <<[s |-> ev'.s, data |-> queries[ev'.q].data]>>
       /\ (ev'.op # "subscribe" /\ ev'.calls # <<>>) =>
            /\ ev'.op = "resolved"
            /\ queries'[ev'.q].data # queries[ev'.q].data]_vars

\* a subscribe call that called back with the data already there
C10_Witness == ev.op = "subscribe" /\ Len(ev.calls) = 1

====
